---------------------------- MODULE Spec2Model ----------------------------
(***************************************************************************)
(* Model of the Instagram post workflow: the LangGraph state machine of    *)
(* src/src/workflow.py (research -> draft -> review -> revise/finalize)    *)
(* together with the three agents it drives (researcher_agent.py,          *)
(* drafter_agent.py, editor_agent.py).                                     *)
(*                                                                         *)
(* Conventions.  A Python str is a sequence of tokens, so that join and    *)
(* concatenation are computed.  A Python dict is a record; the empty dict  *)
(* is <<>>, and d.get(k, default) is Get(d, k, default).  None is the      *)
(* record None; a value that may be None or a str/list is wrapped          *)
(* (Some(s), JList(l)).  A call that raises yields Raised.  The answers of *)
(* the language models are the inputs of the model, drawn from the sets    *)
(* ResearchResponses, DraftResponses and ReviewResponses.                  *)
(***************************************************************************)
EXTENDS Integers, Sequences, FiniteSets, TLC

\* Largest max_total_iterations the runs are configured with.
MaxLimit == 2
\* The drafter's configured max_slides.
max_slides == 2
\* No run within the bounds starts a review with iteration >= MaxLimit; the
\* review node is capped by it so that the state space stays finite.
ReviewCap == MaxLimit

VARIABLES
    pc,               \* the node the graph executes next, "END" or "raised"
    topic,            \* WorkflowState fields
    research_data,
    post_data,
    review_decision,
    iteration,
    max_iterations,
    messages,
    final_post,
    route,            \* the last value review_decision_router returned
    calls,            \* the agent calls made so far, with their results
    last_response,    \* the reviewer model's raw answer to the last review
    log,              \* the records of the editor's logger, WARNING and above
    cancelled,        \* the caller has signalled that it aborts the run
    peer,             \* a second run of the process, while the other one executes
    cur               \* which of the two runs the other variables hold

vars == <<pc, topic, research_data, post_data, review_decision, iteration,
          max_iterations, messages, final_post, route, calls, last_response,
          log, cancelled, peer, cur>>

----------------------------------------------------------------------------
\* Python values

None == [none |-> TRUE]
Some(s) == [some |-> s]
JList(l) == [list |-> l]
Raised == [raised |-> TRUE]
Returned(v) == [raised |-> FALSE, value |-> v]
EmptyDict == <<>>

Get(d, k, default) == IF k \in DOMAIN d THEN d[k] ELSE default

SetKey(d, k, v) == [x \in (DOMAIN d) \cup {k} |-> IF x = k THEN v ELSE d[x]]

\* A test that takes every suggestion list for empty.
TruthyList_never(j) == FALSE

\* bool(x) of a JSON value that is a list or null
TruthyList(j) == "list" \in DOMAIN j /\ j.list # <<>>

RECURSIVE Join(_, _)
\* sep.join(parts), parts a sequence of strs
Join(parts, sep) ==
    IF parts = <<>> THEN <<>>
    ELSE IF Len(parts) = 1 THEN parts[1]
    ELSE parts[1] \o sep \o Join(Tail(parts), sep)

Topics == {"Random Forests"}
Limits == (0 - 1)..MaxLimit

----------------------------------------------------------------------------
\* ResearcherAgent

ResearchTexts == {<<"w1">>, <<"w1", "w2">>}

\* What the Tavily client does in search_topic: raise, or answer with results.
SearchOutcomes == {"error", "results"}

\* What a research call meets: the outcome of the search, and what llm.invoke
\* does then: raise, or answer with a text.
ResearchResponses ==
    {[kind |-> "raise", search |-> o] : o \in SearchOutcomes}
    \cup {[kind |-> "text", content |-> c, search |-> o] :
             c \in ResearchTexts, o \in SearchOutcomes}

\* search_topic without its try/except: an error of the search propagates.
search_topic_unguarded(t, focus_areas, outcome) ==
    IF outcome = "error" THEN Raised
    ELSE Returned(<<"Title: ", "Content: ", "URL: ">>)

\* search_topic: the formatted results, or the text "Search error: ..." when
\* the search raised.
search_topic(t, focus_areas, outcome) ==
    IF outcome = "error" THEN Returned(<<"Search error: ", "e">>)
    ELSE Returned(<<"Title: ", "Content: ", "URL: ">>)

\* research: the search results go into the prompt; the artifact is built
\* from the model's answer.
research(t, focus_areas, resp) ==
    LET search_results == search_topic(t, focus_areas, resp.search)
    IN  IF search_results.raised THEN Raised
        ELSE IF resp.kind = "raise" THEN Raised
        ELSE Returned([topic |-> t,
                       research_content |-> resp.content,
                       focus_areas |-> focus_areas,
                       word_count |-> Len(resp.content)])

----------------------------------------------------------------------------
\* DrafterAgent

Slide(i) == [dict |-> TRUE, page_number |-> i, title |-> "title",
             content |-> "content", layout |-> "layout"]

\* A JSON value in the slide list that is not an object.
BadUnit == [dict |-> FALSE]

Slides(n) == [i \in 1..n |-> Slide(i)]

\* What llm.invoke does in draft_post: raise, answer with text that is not
\* JSON, with a JSON object without "slides", or with a slide list.
DraftResponses ==
    {[kind |-> "raise"], [kind |-> "unparseable"], [kind |-> "no_slides"]}
    \cup {[kind |-> "json", slides |-> Slides(n)] : n \in {0, max_slides, max_slides + 1}}
    \cup {[kind |-> "json", slides |-> <<BadUnit>>]}

ErrorPost(rdata, prefix, e) ==
    [topic |-> Get(rdata, "topic", None),
     post |-> [slides |-> <<[dict |-> TRUE, page_number |-> 1, title |-> "Error",
                             content |-> <<prefix, e>>, layout |-> "Error message"]>>],
     slide_count |-> 1,
     error |-> e]

\* draft_post without the truncation of lines 108-110.
draft_post_untruncated(rdata, revision_feedback, resp) ==
    IF resp.kind = "raise" THEN Raised
    ELSE IF resp.kind = "unparseable"
    THEN Returned(ErrorPost(rdata, "Failed to generate post. Error: ", "JSONDecodeError"))
    ELSE IF resp.kind = "no_slides"
    THEN Returned(ErrorPost(rdata, "Unexpected error: ",
                            "Response does not contain 'slides' key"))
    ELSE LET kept == resp.slides
         IN  Returned([topic |-> Get(rdata, "topic", None),
                       post |-> [slides |-> kept],
                       slide_count |-> Len(kept)])

\* draft_post: the artifact built from the generator's answer.
draft_post(rdata, revision_feedback, resp) ==
    IF resp.kind = "raise" THEN Raised
    ELSE IF resp.kind = "unparseable"
    THEN Returned(ErrorPost(rdata, "Failed to generate post. Error: ", "JSONDecodeError"))
    ELSE IF resp.kind = "no_slides"
    THEN Returned(ErrorPost(rdata, "Unexpected error: ",
                            "Response does not contain 'slides' key"))
    ELSE LET kept == IF Len(resp.slides) > max_slides
                     THEN SubSeq(resp.slides, 1, max_slides)
                     ELSE resp.slides
         IN  Returned([topic |-> Get(rdata, "topic", None),
                       post |-> [slides |-> kept],
                       slide_count |-> Len(kept)])

\* format_post_for_display raises (slide.get on a value that is no dict)
\* exactly when some unit of the post is not an object.
format_post_raises(post) ==
    /\ "post" \in DOMAIN post
    /\ \E i \in 1..Len(Get(post.post, "slides", <<>>)) : ~post.post.slides[i].dict

----------------------------------------------------------------------------
\* EditorInChiefAgent

valid_decisions == {"approve", "revise_research", "revise_draft"}

\* The JSON objects the reviewer model answers with: a decision kind (valid,
\* unknown, or absent), a feedback text and a suggestion list (a list, null,
\* or absent).
ReviewObjects ==
    {[decision |-> "approve", feedback |-> <<"fb">>, suggestions |-> JList(<<>>)],
     [decision |-> "revise_research", feedback |-> <<"fb">>,
      suggestions |-> JList(<<<<"s1">>, <<"s2">>>>)],
     [decision |-> "revise_research", feedback |-> <<"fb">>, suggestions |-> JList(<<>>)],
     [decision |-> "revise_draft", feedback |-> <<"fb">>, suggestions |-> JList(<<<<"s1">>>>)],
     [decision |-> "revise_draft", feedback |-> <<"fb">>, suggestions |-> None],
     [decision |-> "maybe", feedback |-> <<"fb">>, suggestions |-> JList(<<<<"s1">>>>)],
     [feedback |-> <<"fb">>]}

\* What llm.invoke does in review_post: raise, answer with text that is not
\* JSON, with JSON that is not an object, or with a JSON object.
ReviewResponses ==
    {[kind |-> "raise"], [kind |-> "unparseable"], [kind |-> "nondict"]}
    \cup {[kind |-> "json", obj |-> o] : o \in ReviewObjects}

\* validate_decision without the check of lines 105-107.
validate_decision_unchecked(review_result) == review_result

\* Lines 103-107: an object whose decision is not a valid one gets revise_draft.
validate_decision(review_result) ==
    IF "decision" \in DOMAIN review_result /\ review_result.decision \in valid_decisions
    THEN review_result
    ELSE SetKey(review_result, "decision", "revise_draft")

review_post(post, rdata, resp) ==
    IF format_post_raises(post) THEN Raised
    ELSE IF resp.kind = "raise" THEN Raised
    ELSE IF resp.kind = "unparseable"
    THEN Returned([decision |-> "revise_draft",
                   feedback |-> <<"Failed to parse review. Please improve the post quality.">>,
                   specific_issues |-> <<"Review parsing error">>,
                   suggestions |-> JList(<<<<"Ensure content meets quality standards">>>>)])
    ELSE IF resp.kind = "nondict"
    THEN Returned([decision |-> "revise_draft",
                   feedback |-> <<"Error during review: ", "AttributeError">>,
                   specific_issues |-> <<"AttributeError">>,
                   suggestions |-> JList(<<>>)])
    ELSE Returned(validate_decision(resp.obj))

LogRecord(level, text, arg) == [level |-> level, text |-> text, arg |-> arg]

\* review_post coercing an invalid decision without the warning of line 106.
review_log_silent(post, resp) ==
    IF format_post_raises(post) \/ resp.kind = "raise" THEN <<>>
    ELSE IF resp.kind = "unparseable"
    THEN <<LogRecord("ERROR", "Failed to parse review response: ", "JSONDecodeError")>>
    ELSE IF resp.kind = "nondict"
    THEN <<LogRecord("ERROR", "Unexpected error during review: ", "AttributeError")>>
    ELSE <<>>

\* What review_post writes to the editor's logger at WARNING or above: the
\* warning of line 106 on an invalid decision, the errors of the two except
\* branches; nothing when it raises before or in llm.invoke.
review_log(post, resp) ==
    IF format_post_raises(post) \/ resp.kind = "raise" THEN <<>>
    ELSE IF resp.kind = "unparseable"
    THEN <<LogRecord("ERROR", "Failed to parse review response: ", "JSONDecodeError")>>
    ELSE IF resp.kind = "nondict"
    THEN <<LogRecord("ERROR", "Unexpected error during review: ", "AttributeError")>>
    ELSE IF validate_decision(resp.obj) # resp.obj
    THEN <<LogRecord("WARNING", "Invalid decision: {}, defaulting to revise_draft",
                     Get(resp.obj, "decision", None))>>
    ELSE <<>>

\* Whether review_post reaches llm.invoke.
review_invokes_llm(post) == ~format_post_raises(post)

\* The editor_in_chief section of the configuration: its max_iterations
\* setting, or none.
EditorConfigs ==
    {[max_iterations |-> m] : m \in 0..MaxLimit} \cup {EmptyDict}

\* EditorInChiefAgent.__init__: the attributes taken from the configuration.
\* No method of the agent or of the workflow reads max_iterations afterwards.
EditorInit(config) ==
    [max_iterations |-> Get(config, "max_iterations", 5)]

ResearchCall(t, focus_areas, out) ==
    [cap |-> "research", topic |-> t, focus_areas |-> focus_areas, result |-> out]

DraftCall(rdata, revision_feedback, out) ==
    [cap |-> "draft", research |-> rdata, revision_feedback |-> revision_feedback,
     result |-> out]

ReviewCall(post, rdata, out) ==
    [cap |-> "review", post |-> post, research |-> rdata, result |-> out]

HasDecision(decision_record, kind) ==
    "decision" \in DOMAIN decision_record /\ decision_record.decision = kind

\* "- s" for every suggestion s
Bullets(l) == [i \in 1..Len(l) |-> <<"- ">> \o l[i]]

\* execute_action returning the research it was given on revise_research
\* (line 164 returning research_data instead of updated_research).
execute_action_stale_research(decision_record, rdata, post, t, rresp, dresp) ==
    LET feedback == Get(decision_record, "feedback", <<>>)
        suggestions == Get(decision_record, "suggestions", JList(<<>>))
    IN  IF HasDecision(decision_record, "approve")
        THEN [raised |-> FALSE, research |-> rdata, post |-> post, calls |-> <<>>]
        ELSE IF HasDecision(decision_record, "revise_research")
        THEN LET focus_areas == IF TruthyList(suggestions)
                                THEN Join(suggestions.list, <<" ">>)
                                ELSE feedback
                 r == research(t, Some(focus_areas), rresp)
                 rcall == ResearchCall(t, Some(focus_areas), r)
             IN  IF r.raised
                 THEN [raised |-> TRUE, calls |-> <<rcall>>]
                 ELSE LET d == draft_post(r.value, None, dresp)
                          dcall == DraftCall(r.value, None, d)
                      IN  IF d.raised
                          THEN [raised |-> TRUE, calls |-> <<rcall, dcall>>]
                          ELSE [raised |-> FALSE, research |-> rdata,
                                post |-> d.value, calls |-> <<rcall, dcall>>]
        ELSE IF HasDecision(decision_record, "revise_draft")
        THEN IF "list" \notin DOMAIN suggestions
             THEN [raised |-> TRUE, calls |-> <<>>]
             ELSE LET revision_feedback ==
                          feedback \o <<"\n\nSpecific suggestions:\n">>
                              \o Join(Bullets(suggestions.list), <<"\n">>)
                      d == draft_post(rdata, Some(revision_feedback), dresp)
                      dcall == DraftCall(rdata, Some(revision_feedback), d)
                  IN  IF d.raised
                      THEN [raised |-> TRUE, calls |-> <<dcall>>]
                      ELSE [raised |-> FALSE, research |-> rdata,
                            post |-> d.value, calls |-> <<dcall>>]
        ELSE [raised |-> FALSE, research |-> rdata, post |-> post, calls |-> <<>>]

\* execute_action researching again on revise_draft as well (the revise_draft
\* branch written like the revise_research one).
execute_action_always_researches(decision_record, rdata, post, t, rresp, dresp) ==
    LET feedback == Get(decision_record, "feedback", <<>>)
        suggestions == Get(decision_record, "suggestions", JList(<<>>))
    IN  IF HasDecision(decision_record, "approve")
        THEN [raised |-> FALSE, research |-> rdata, post |-> post, calls |-> <<>>]
        ELSE IF HasDecision(decision_record, "revise_research")
                \/ HasDecision(decision_record, "revise_draft")
        THEN LET focus_areas == IF TruthyList(suggestions)
                                THEN Join(suggestions.list, <<" ">>)
                                ELSE feedback
                 r == research(t, Some(focus_areas), rresp)
                 rcall == ResearchCall(t, Some(focus_areas), r)
             IN  IF r.raised
                 THEN [raised |-> TRUE, calls |-> <<rcall>>]
                 ELSE LET d == draft_post(r.value, None, dresp)
                          dcall == DraftCall(r.value, None, d)
                      IN  IF d.raised
                          THEN [raised |-> TRUE, calls |-> <<rcall, dcall>>]
                          ELSE [raised |-> FALSE, research |-> r.value,
                                post |-> d.value, calls |-> <<rcall, dcall>>]
        ELSE [raised |-> FALSE, research |-> rdata, post |-> post, calls |-> <<>>]

\* execute_action drafting again on a decision it does not know (the final
\* else treated like revise_draft).
execute_action_default_redrafts(decision_record, rdata, post, t, rresp, dresp) ==
    LET feedback == Get(decision_record, "feedback", <<>>)
        suggestions == Get(decision_record, "suggestions", JList(<<>>))
    IN  IF HasDecision(decision_record, "approve")
        THEN [raised |-> FALSE, research |-> rdata, post |-> post, calls |-> <<>>]
        ELSE IF HasDecision(decision_record, "revise_research")
        THEN LET focus_areas == IF TruthyList(suggestions)
                                THEN Join(suggestions.list, <<" ">>)
                                ELSE feedback
                 r == research(t, Some(focus_areas), rresp)
                 rcall == ResearchCall(t, Some(focus_areas), r)
             IN  IF r.raised
                 THEN [raised |-> TRUE, calls |-> <<rcall>>]
                 ELSE LET d == draft_post(r.value, None, dresp)
                          dcall == DraftCall(r.value, None, d)
                      IN  IF d.raised
                          THEN [raised |-> TRUE, calls |-> <<rcall, dcall>>]
                          ELSE [raised |-> FALSE, research |-> r.value,
                                post |-> d.value, calls |-> <<rcall, dcall>>]
        ELSE IF HasDecision(decision_record, "revise_draft")
        THEN IF "list" \notin DOMAIN suggestions
             THEN [raised |-> TRUE, calls |-> <<>>]  \* iterating over None
             ELSE LET revision_feedback ==
                          feedback \o <<"\n\nSpecific suggestions:\n">>
                              \o Join(Bullets(suggestions.list), <<"\n">>)
                      d == draft_post(rdata, Some(revision_feedback), dresp)
                      dcall == DraftCall(rdata, Some(revision_feedback), d)
                  IN  IF d.raised
                      THEN [raised |-> TRUE, calls |-> <<dcall>>]
                      ELSE [raised |-> FALSE, research |-> rdata,
                            post |-> d.value, calls |-> <<dcall>>]
        ELSE LET d == draft_post(rdata, Some(feedback), dresp)
                 dcall == DraftCall(rdata, Some(feedback), d)
             IN  IF d.raised
                 THEN [raised |-> TRUE, calls |-> <<dcall>>]
                 ELSE [raised |-> FALSE, research |-> rdata,
                       post |-> d.value, calls |-> <<dcall>>]

\* execute_action: the updated (research, post) pair and the agent calls made,
\* or a raise (with the calls made before it).
execute_action(decision_record, rdata, post, t, rresp, dresp) ==
    LET feedback == Get(decision_record, "feedback", <<>>)
        suggestions == Get(decision_record, "suggestions", JList(<<>>))
    IN  IF HasDecision(decision_record, "approve")
        THEN [raised |-> FALSE, research |-> rdata, post |-> post, calls |-> <<>>]
        ELSE IF HasDecision(decision_record, "revise_research")
        THEN LET focus_areas == IF TruthyList(suggestions)
                                THEN Join(suggestions.list, <<" ">>)
                                ELSE feedback
                 r == research(t, Some(focus_areas), rresp)
                 rcall == ResearchCall(t, Some(focus_areas), r)
             IN  IF r.raised
                 THEN [raised |-> TRUE, calls |-> <<rcall>>]
                 ELSE LET d == draft_post(r.value, None, dresp)
                          dcall == DraftCall(r.value, None, d)
                      IN  IF d.raised
                          THEN [raised |-> TRUE, calls |-> <<rcall, dcall>>]
                          ELSE [raised |-> FALSE, research |-> r.value,
                                post |-> d.value, calls |-> <<rcall, dcall>>]
        ELSE IF HasDecision(decision_record, "revise_draft")
        THEN IF "list" \notin DOMAIN suggestions
             THEN [raised |-> TRUE, calls |-> <<>>]  \* iterating over None
             ELSE LET revision_feedback ==
                          feedback \o <<"\n\nSpecific suggestions:\n">>
                              \o Join(Bullets(suggestions.list), <<"\n">>)
                      d == draft_post(rdata, Some(revision_feedback), dresp)
                      dcall == DraftCall(rdata, Some(revision_feedback), d)
                  IN  IF d.raised
                      THEN [raised |-> TRUE, calls |-> <<dcall>>]
                      ELSE [raised |-> FALSE, research |-> rdata,
                            post |-> d.value, calls |-> <<dcall>>]
        ELSE [raised |-> FALSE, research |-> rdata, post |-> post, calls |-> <<>>]

\* What execute_action writes to the editor's logger at WARNING or above: the
\* warning of its final else.
execute_action_log(decision_record) ==
    IF \/ HasDecision(decision_record, "approve")
       \/ HasDecision(decision_record, "revise_research")
       \/ HasDecision(decision_record, "revise_draft")
    THEN <<>>
    ELSE <<LogRecord("WARNING", "Unknown decision: {}, no action taken",
                     Get(decision_record, "decision", None))>>

----------------------------------------------------------------------------
\* InstagramWorkflow

Message(text, arg) == [role |-> "system", content |-> [text |-> text, arg |-> arg]]

\* The router with the budget test written > instead of >=.
review_decision_router_strict(decision_record, iter, max_iter) ==
    IF iter > max_iter THEN "max_iterations"
    ELSE IF HasDecision(decision_record, "approve") THEN "approved"
    ELSE "revise"

\* The router without the budget test of lines 169-172.
review_decision_router_no_budget(decision_record, iter, max_iter) ==
    IF HasDecision(decision_record, "approve") THEN "approved" ELSE "revise"

\* The router testing the approval before the budget.
review_decision_router_approve_first(decision_record, iter, max_iter) ==
    IF HasDecision(decision_record, "approve") THEN "approved"
    ELSE IF iter >= max_iter THEN "max_iterations"
    ELSE "revise"

\* The router checking the decision kind: a kind that is none of the three
\* valid ones ends the loop.
review_decision_router_validating(decision_record, iter, max_iter) ==
    IF iter >= max_iter THEN "max_iterations"
    ELSE IF HasDecision(decision_record, "approve") THEN "approved"
    ELSE IF \/ HasDecision(decision_record, "revise_research")
            \/ HasDecision(decision_record, "revise_draft")
    THEN "revise"
    ELSE "max_iterations"

\* The conditional edge function evaluated after the review node.
review_decision_router(decision_record, iter, max_iter) ==
    IF iter >= max_iter THEN "max_iterations"
    ELSE IF HasDecision(decision_record, "approve") THEN "approved"
    ELSE "revise"

\* The mapping with "approved" wired to the revise node.
EdgeTarget_approved_to_revise(r) ==
    CASE r = "approved" -> "revise"
      [] r = "revise" -> "revise"
      [] r = "max_iterations" -> "finalize"

\* The mapping given to add_conditional_edges.
EdgeTarget(r) ==
    CASE r = "approved" -> "finalize"
      [] r = "revise" -> "revise"
      [] r = "max_iterations" -> "finalize"

\* run(topic): the initial state handed to the compiled graph, whose entry
\* point is research.  max_iterations is the constructor's argument.
Init ==
    /\ pc = "research"
    /\ topic \in Topics
    /\ research_data = EmptyDict
    /\ post_data = EmptyDict
    /\ review_decision = EmptyDict
    /\ iteration = 0
    /\ max_iterations \in Limits
    /\ messages = <<>>
    /\ final_post = EmptyDict
    /\ route = "none"
    /\ calls = <<>>
    /\ last_response = None
    /\ log = <<>>
    /\ cancelled = FALSE
    /\ peer = None
    /\ cur = 1

research_node ==
    /\ pc = "research"
    /\ \E resp \in ResearchResponses :
         LET out == research(topic, None, resp)
         IN  /\ calls' = Append(calls, ResearchCall(topic, None, out))
             /\ IF out.raised
                THEN /\ pc' = "raised"
                     /\ UNCHANGED <<research_data, messages>>
                ELSE /\ research_data' = out.value
                     /\ messages' = Append(messages,
                                           Message("Research completed for topic: ", topic))
                     /\ pc' = "draft"
    /\ UNCHANGED <<topic, post_data, review_decision, iteration, max_iterations,
                   final_post, route, last_response, log, cancelled, peer, cur>>

\* draft_node also keeping the draft as the final post so far.
draft_node_sets_final ==
    /\ pc = "draft"
    /\ \E resp \in DraftResponses :
         LET out == draft_post(research_data, None, resp)
         IN  /\ calls' = Append(calls, DraftCall(research_data, None, out))
             /\ IF out.raised
                THEN /\ pc' = "raised"
                     /\ UNCHANGED <<post_data, messages, final_post>>
                ELSE /\ post_data' = out.value
                     /\ final_post' = out.value
                     /\ messages' = Append(messages,
                                           Message("Draft completed with {} slides",
                                                   Get(out.value, "slide_count", 0)))
                     /\ pc' = "review"
    /\ UNCHANGED <<topic, research_data, review_decision, iteration, max_iterations,
                   route, last_response, log, cancelled, peer, cur>>

\* draft_node followed by a budget test before the first review (the edge of
\* line 62 made conditional on iteration < max_iterations).
draft_node_checks_budget ==
    /\ pc = "draft"
    /\ \E resp \in DraftResponses :
         LET out == draft_post(research_data, None, resp)
         IN  /\ calls' = Append(calls, DraftCall(research_data, None, out))
             /\ IF out.raised
                THEN /\ pc' = "raised"
                     /\ UNCHANGED <<post_data, messages>>
                ELSE /\ post_data' = out.value
                     /\ messages' = Append(messages,
                                           Message("Draft completed with {} slides",
                                                   Get(out.value, "slide_count", 0)))
                     /\ pc' = IF iteration >= max_iterations
                              THEN "finalize" ELSE "review"
    /\ UNCHANGED <<topic, research_data, review_decision, iteration, max_iterations,
                   final_post, route, last_response, log, cancelled, peer, cur>>

draft_node ==
    /\ pc = "draft"
    /\ \E resp \in DraftResponses :
         LET out == draft_post(research_data, None, resp)
         IN  /\ calls' = Append(calls, DraftCall(research_data, None, out))
             /\ IF out.raised
                THEN /\ pc' = "raised"
                     /\ UNCHANGED <<post_data, messages>>
                ELSE /\ post_data' = out.value
                     /\ messages' = Append(messages,
                                           Message("Draft completed with {} slides",
                                                   Get(out.value, "slide_count", 0)))
                     /\ pc' = "review"
    /\ UNCHANGED <<topic, research_data, review_decision, iteration, max_iterations,
                   final_post, route, last_response, log, cancelled, peer, cur>>

\* review_node whose trace event does not name the decision.
review_node_plain_message ==
    /\ pc = "review"
    /\ iteration < ReviewCap
    /\ \E resp \in ReviewResponses :
         LET out == review_post(post_data, research_data, resp)
         IN  /\ calls' = Append(calls, ReviewCall(post_data, research_data, out))
             /\ log' = log \o review_log(post_data, resp)
             /\ last_response' = IF review_invokes_llm(post_data) THEN resp
                                 ELSE last_response
             /\ IF out.raised
                THEN /\ pc' = "raised"
                     /\ UNCHANGED <<review_decision, iteration, messages, route>>
                ELSE /\ review_decision' = out.value
                     /\ iteration' = iteration + 1
                     /\ messages' = Append(messages,
                                           Message("Review completed. Decision: ", "made"))
                     /\ route' = review_decision_router(out.value, iteration + 1,
                                                        max_iterations)
                     /\ pc' = EdgeTarget(route')
    /\ UNCHANGED <<topic, research_data, post_data, max_iterations, final_post,
                   cancelled, peer, cur>>

\* The review node followed by the conditional edge out of it.
review_node ==
    /\ pc = "review"
    /\ iteration < ReviewCap
    /\ \E resp \in ReviewResponses :
         LET out == review_post(post_data, research_data, resp)
         IN  /\ calls' = Append(calls, ReviewCall(post_data, research_data, out))
             /\ log' = log \o review_log(post_data, resp)
             /\ last_response' = IF review_invokes_llm(post_data) THEN resp
                                 ELSE last_response
             /\ IF out.raised
                THEN /\ pc' = "raised"
                     /\ UNCHANGED <<review_decision, iteration, messages, route>>
                ELSE /\ review_decision' = out.value
                     /\ iteration' = iteration + 1
                     /\ messages' = Append(messages,
                                           Message("Review completed. Decision: ",
                                                   Get(out.value, "decision", None)))
                     /\ route' = review_decision_router(out.value, iteration + 1,
                                                        max_iterations)
                     /\ pc' = EdgeTarget(route')
    /\ UNCHANGED <<topic, research_data, post_data, max_iterations, final_post,
                   cancelled, peer, cur>>

\* revise_node counting the revision as an iteration.
revise_node_counts ==
    /\ pc = "revise"
    /\ log' = log \o execute_action_log(review_decision)
    /\ \E rresp \in ResearchResponses, dresp \in DraftResponses :
         LET out == execute_action(review_decision, research_data, post_data, topic,
                                   rresp, dresp)
         IN  /\ calls' = calls \o out.calls
             /\ IF out.raised
                THEN /\ pc' = "raised"
                     /\ UNCHANGED <<research_data, post_data, messages, iteration>>
                ELSE /\ research_data' = out.research
                     /\ post_data' = out.post
                     /\ iteration' = iteration + 1
                     /\ messages' = Append(messages,
                                           Message("Revision completed based on: ",
                                                   Get(review_decision, "decision", None)))
                     /\ pc' = "review"
    /\ UNCHANGED <<topic, review_decision, max_iterations, final_post,
                   route, last_response, cancelled, peer, cur>>

\* revise_node without the assignment of line 141.
revise_node_keeps_research ==
    /\ pc = "revise"
    /\ log' = log \o execute_action_log(review_decision)
    /\ \E rresp \in ResearchResponses, dresp \in DraftResponses :
         LET out == execute_action(review_decision, research_data, post_data, topic,
                                   rresp, dresp)
         IN  /\ calls' = calls \o out.calls
             /\ IF out.raised
                THEN /\ pc' = "raised"
                     /\ UNCHANGED <<post_data, messages>>
                ELSE /\ post_data' = out.post
                     /\ messages' = Append(messages,
                                           Message("Revision completed based on: ",
                                                   Get(review_decision, "decision", None)))
                     /\ pc' = "review"
    /\ UNCHANGED <<topic, research_data, review_decision, iteration, max_iterations,
                   final_post, route, last_response, cancelled, peer, cur>>

\* revise_node with the edge out of it leading to finalize (line 74 written
\* add_edge("revise", "finalize")).
revise_node_then_finalize ==
    /\ pc = "revise"
    /\ log' = log \o execute_action_log(review_decision)
    /\ \E rresp \in ResearchResponses, dresp \in DraftResponses :
         LET out == execute_action(review_decision, research_data, post_data, topic,
                                   rresp, dresp)
         IN  /\ calls' = calls \o out.calls
             /\ IF out.raised
                THEN /\ pc' = "raised"
                     /\ UNCHANGED <<research_data, post_data, messages>>
                ELSE /\ research_data' = out.research
                     /\ post_data' = out.post
                     /\ messages' = Append(messages,
                                           Message("Revision completed based on: ",
                                                   Get(review_decision, "decision", None)))
                     /\ pc' = "finalize"
    /\ UNCHANGED <<topic, review_decision, iteration, max_iterations, final_post,
                   route, last_response, cancelled, peer, cur>>

revise_node ==
    /\ pc = "revise"
    /\ log' = log \o execute_action_log(review_decision)
    /\ \E rresp \in ResearchResponses, dresp \in DraftResponses :
         LET out == execute_action(review_decision, research_data, post_data, topic,
                                   rresp, dresp)
         IN  /\ calls' = calls \o out.calls
             /\ IF out.raised
                THEN /\ pc' = "raised"
                     /\ UNCHANGED <<research_data, post_data, messages>>
                ELSE /\ research_data' = out.research
                     /\ post_data' = out.post
                     /\ messages' = Append(messages,
                                           Message("Revision completed based on: ",
                                                   Get(review_decision, "decision", None)))
                     /\ pc' = "review"
    /\ UNCHANGED <<topic, review_decision, iteration, max_iterations, final_post,
                   route, last_response, cancelled, peer, cur>>

\* The WorkflowState dict the nodes receive and return.
State ==
    [topic |-> topic,
     research_data |-> research_data,
     post_data |-> post_data,
     review_decision |-> review_decision,
     iteration |-> iteration,
     max_iterations |-> max_iterations,
     messages |-> messages,
     final_post |-> final_post]

\* finalize_node finalizing only an approved post.
finalize_only_approved(st) ==
    [st EXCEPT !.final_post = IF HasDecision(st.review_decision, "approve")
                              THEN st.post_data ELSE st.final_post,
               !.messages = Append(st.messages,
                                   Message("Post finalized and ready for publication", None))]

\* finalize_node moving the post out of post_data (state.pop("post_data")).
finalize_moves_post(st) ==
    [st EXCEPT !.final_post = st.post_data,
               !.post_data = EmptyDict,
               !.messages = Append(st.messages,
                                   Message("Post finalized and ready for publication", None))]

\* finalize_node starting the message list afresh (state["messages"] = [...]).
finalize_resets_trace(st) ==
    [st EXCEPT !.final_post = st.post_data,
               !.messages = <<Message("Post finalized and ready for publication", None)>>]

\* finalize_node as a function of the state it is given.
finalize(st) ==
    [st EXCEPT !.final_post = st.post_data,
               !.messages = Append(st.messages,
                                   Message("Post finalized and ready for publication", None))]

\* The finalize node followed by the edge to END.
finalize_node ==
    /\ pc = "finalize"
    /\ LET st == finalize(State)
       IN  /\ topic' = st.topic
           /\ research_data' = st.research_data
           /\ post_data' = st.post_data
           /\ review_decision' = st.review_decision
           /\ iteration' = st.iteration
           /\ max_iterations' = st.max_iterations
           /\ messages' = st.messages
           /\ final_post' = st.final_post
    /\ pc' = "END"
    /\ UNCHANGED <<route, calls, last_response, log, cancelled, peer, cur>>

Next ==
    \/ research_node
    \/ draft_node
    \/ review_node
    \/ revise_node
    \/ finalize_node

Spec == Init /\ [][Next]_vars

\* Every node the graph schedules is executed: the graph runner never pauses
\* between nodes.
FairSpec == Spec /\ WF_vars(Next)

\* The caller signals that it aborts the run it has started.  run takes no
\* cancellation signal and no node reads one: the signal changes nothing of
\* the run.
cancel ==
    /\ pc \notin {"END", "raised"}
    /\ ~cancelled
    /\ cancelled' = TRUE
    /\ UNCHANGED <<pc, topic, research_data, post_data, review_decision, iteration,
                   max_iterations, messages, final_post, route, calls, last_response,
                   log, peer, cur>>

CancelNext == Next \/ cancel

\* A run whose caller may signal an abort at any moment before it returns.
CancelSpec == Init /\ [][CancelNext]_vars

\* One run of the graph: its WorkflowState, the node it is at and what it
\* has called so far.
Run ==
    [pc |-> pc,
     topic |-> topic,
     research_data |-> research_data,
     post_data |-> post_data,
     review_decision |-> review_decision,
     iteration |-> iteration,
     max_iterations |-> max_iterations,
     messages |-> messages,
     final_post |-> final_post,
     route |-> route,
     calls |-> calls,
     last_response |-> last_response]

\* The state run(t) starts a graph invocation with, on a workflow built with
\* the given limit.
InitialRun(t, limit) ==
    [pc |-> "research",
     topic |-> t,
     research_data |-> EmptyDict,
     post_data |-> EmptyDict,
     review_decision |-> EmptyDict,
     iteration |-> 0,
     max_iterations |-> limit,
     messages |-> <<>>,
     final_post |-> EmptyDict,
     route |-> "none",
     calls |-> <<>>,
     last_response |-> None]

\* Two runs in one process, on different topics, each on a workflow with its
\* own limit.
PairTopics == <<"Random Forests", "Gradient Boosting">>
PairLimits == <<2, 1>>

\* The scheduler passing control to the other run, with the iteration count
\* kept in one place for both runs (self.iteration instead of
\* state["iteration"]).
switch_shared_iteration ==
    /\ peer.pc \notin {"END", "raised"}
    /\ peer' = Run
    /\ pc' = peer.pc
    /\ topic' = peer.topic
    /\ research_data' = peer.research_data
    /\ post_data' = peer.post_data
    /\ review_decision' = peer.review_decision
    /\ iteration' = iteration
    /\ max_iterations' = peer.max_iterations
    /\ messages' = peer.messages
    /\ final_post' = peer.final_post
    /\ route' = peer.route
    /\ calls' = peer.calls
    /\ last_response' = peer.last_response
    /\ cur' = 3 - cur
    /\ UNCHANGED <<log, cancelled>>

\* The scheduler passes control to the other run, which has not finished.
\* Each run has the state dict run built for it; the two share the agents and
\* the editor's logger.
switch ==
    /\ peer.pc \notin {"END", "raised"}
    /\ peer' = Run
    /\ pc' = peer.pc
    /\ topic' = peer.topic
    /\ research_data' = peer.research_data
    /\ post_data' = peer.post_data
    /\ review_decision' = peer.review_decision
    /\ iteration' = peer.iteration
    /\ max_iterations' = peer.max_iterations
    /\ messages' = peer.messages
    /\ final_post' = peer.final_post
    /\ route' = peer.route
    /\ calls' = peer.calls
    /\ last_response' = peer.last_response
    /\ cur' = 3 - cur
    /\ UNCHANGED <<log, cancelled>>

PairInit ==
    /\ pc = "research"
    /\ topic = PairTopics[1]
    /\ research_data = EmptyDict
    /\ post_data = EmptyDict
    /\ review_decision = EmptyDict
    /\ iteration = 0
    /\ max_iterations = PairLimits[1]
    /\ messages = <<>>
    /\ final_post = EmptyDict
    /\ route = "none"
    /\ calls = <<>>
    /\ last_response = None
    /\ log = <<>>
    /\ cancelled = FALSE
    /\ peer = InitialRun(PairTopics[2], PairLimits[2])
    /\ cur = 1

PairNext == Next \/ switch

\* Two runs executing concurrently, their phase steps interleaved in any order.
PairSpec == PairInit /\ [][PairNext]_vars

\* The decision records a WorkflowState can hold when it is handed to the
\* router and to revise_node: any dict, with a valid kind, another kind or
\* none.
DispatchDecisions == ReviewObjects \cup {EmptyDict}

\* A WorkflowState handed to the conditional edge after a review: a post
\* drafted from the research in the state, any decision record, any count.
DispatchInit ==
    /\ pc = "route"
    /\ topic \in Topics
    /\ \E rresp \in ResearchResponses, dresp \in DraftResponses :
          LET r == research(topic, None, rresp)
          IN  /\ ~r.raised
              /\ ~draft_post(r.value, None, dresp).raised
              /\ research_data = r.value
              /\ post_data = draft_post(r.value, None, dresp).value
    /\ review_decision \in DispatchDecisions
    /\ iteration \in 0..MaxLimit
    /\ max_iterations \in Limits
    /\ messages = <<>>
    /\ final_post = EmptyDict
    /\ route = "none"
    /\ calls = <<>>
    /\ last_response = None
    /\ log = <<>>
    /\ cancelled = FALSE
    /\ peer = None
    /\ cur = 1

\* The conditional edge alone: the router applied to the state and the node
\* its answer is mapped to.
conditional_edge ==
    /\ pc = "route"
    /\ route' = review_decision_router(review_decision, iteration, max_iterations)
    /\ pc' = EdgeTarget(route')
    /\ UNCHANGED <<topic, research_data, post_data, review_decision, iteration,
                   max_iterations, messages, final_post, calls, last_response, log,
                   cancelled, peer, cur>>

DispatchNext ==
    \/ conditional_edge
    \/ revise_node
    \/ review_node
    \/ finalize_node

\* The loop of the graph entered at the conditional edge with a given state.
DispatchSpec == DispatchInit /\ [][DispatchNext]_vars

\* What run returns once the graph has reached END.
RunResult ==
    [final_post |-> final_post,
     iterations |-> iteration,
     research_data |-> research_data,
     messages |-> messages]

----------------------------------------------------------------------------
\* Observations on a run, read from the call log and the message trace

NCalls(cap) == Cardinality({i \in DOMAIN calls : calls[i].cap = cap})

NMessages(text) == Cardinality({i \in DOMAIN messages : messages[i].content.text = text})

NReviewSteps == NMessages("Review completed. Decision: ")

NReviseSteps == NMessages("Revision completed based on: ")

ReviewReturned(c, kind) ==
    c.cap = "review" /\ ~c.result.raised /\ HasDecision(c.result.value, kind)

AllReviewsReviseDraft ==
    \A i \in DOMAIN calls : calls[i].cap = "review" => ReviewReturned(calls[i], "revise_draft")

FirstReviewApproved ==
    \E i \in DOMAIN calls :
        /\ ReviewReturned(calls[i], "approve")
        /\ \A j \in 1..(i - 1) : calls[j].cap # "review"

IsResponse(resp) == "kind" \in DOMAIN resp

\* The reviewer model answered with an object whose decision kind is not valid.
InvalidKind(resp) ==
    /\ IsResponse(resp)
    /\ resp.kind = "json"
    /\ ~("decision" \in DOMAIN resp.obj /\ resp.obj.decision \in valid_decisions)

\* The same answer with the decision kind revise_draft.
AsReviseDraft(resp) == [kind |-> "json", obj |-> SetKey(resp.obj, "decision", "revise_draft")]

\* The Review capability failed: its generator raised, or its output is not a
\* decision record.
ReviewFailed(resp) == IsResponse(resp) /\ resp.kind \in {"raise", "unparseable", "nondict"}

LastCall == calls[Len(calls)]

ReviewCalls == {i \in DOMAIN calls : calls[i].cap = "review"}

\* The most recent call of the Review capability.
LastReview == calls[CHOOSE i \in ReviewCalls : \A j \in ReviewCalls : j <= i]

FirstReview == CHOOSE i \in ReviewCalls : \A j \in ReviewCalls : i <= j

DraftCalls == {i \in DOMAIN calls : calls[i].cap = "draft"}

FirstDraft == CHOOSE i \in DraftCalls : \A j \in DraftCalls : i <= j

\* The most recent call of the Drafting capability.
LastDraft == calls[CHOOSE i \in DraftCalls : \A j \in DraftCalls : j <= i]

\* The decision record names none of the three valid kinds, or no kind.
Unnormalized(decision_record) ==
    ~("decision" \in DOMAIN decision_record
        /\ decision_record.decision \in valid_decisions)

\* The generator's answer is well formed: a JSON object with a slide list.
WellFormed(resp) == resp.kind = "json"

\* The calls the step from this state to the next one adds to the call log.
NewCalls == SubSeq(calls', Len(calls) + 1, Len(calls'))

\* A decision record as the Review capability is specified to return it:
\* its suggestions, when present, are a list.
SuggestionsAreList(decision_record) ==
    "list" \in DOMAIN Get(decision_record, "suggestions", JList(<<>>))

\* The post of a drafting response that was parsed without error and holds
\* no unit.
ZeroUnits(post) ==
    /\ "post" \in DOMAIN post
    /\ "error" \notin DOMAIN post
    /\ Get(post, "slide_count", 0) = 0
    /\ post.post.slides = <<>>

\* The drafting capability fails internally on this answer of its generator.
DraftFails(resp) == resp.kind \in {"raise", "unparseable", "no_slides"}

\* A well-formed draft artifact holding one error-describing unit.
IsErrorDraft(post) ==
    /\ {"topic", "post", "slide_count", "error"} \subseteq DOMAIN post
    /\ post.slide_count = 1
    /\ Len(post.post.slides) = 1
    /\ post.post.slides[1].dict
    /\ post.post.slides[1].page_number = 1
    /\ post.post.slides[1].title = "Error"

\* The edges of the graph between its five nodes.
PhaseTransitions ==
    {<<"research", "draft">>, <<"draft", "review">>, <<"review", "finalize">>,
     <<"review", "revise">>, <<"revise", "review">>}

\* Call i of the log was started after call i - 1 had returned, and call
\* i - 1 was made to one of the capabilities caps.
FollowsReturned(i, caps) ==
    /\ i > 1
    /\ calls[i - 1].cap \in caps
    /\ ~calls[i - 1].result.raised

\* The review events of a trace, and what a reader of the trace alone takes
\* the termination reason to be: approval when the last review event names
\* the decision approve, budget exhaustion otherwise.
ReviewEvents(trace) ==
    {i \in DOMAIN trace : trace[i].content.text = "Review completed. Decision: "}

LastReviewEvent(trace) ==
    trace[CHOOSE i \in ReviewEvents(trace) : \A j \in ReviewEvents(trace) : j <= i]

TraceSaysApproved(trace) ==
    /\ ReviewEvents(trace) # {}
    /\ LastReviewEvent(trace).content.arg = "approve"

\* The decision records review_post can return for the current draft.
DecisionRecords ==
    {review_post(post_data, research_data, resp).value :
        resp \in {r \in ReviewResponses :
                      ~review_post(post_data, research_data, r).raised}}

\* The text of the event the node named phase appends to the trace.
PhaseEvent(phase) ==
    CASE phase = "research" -> "Research completed for topic: "
      [] phase = "draft" -> "Draft completed with {} slides"
      [] phase = "review" -> "Review completed. Decision: "
      [] phase = "revise" -> "Revision completed based on: "
      [] phase = "finalize" -> "Post finalized and ready for publication"

\* Decision records whose kind is approve or none of the two revision kinds.
PassThroughDecisions ==
    {o \in ReviewObjects : ~HasDecision(o, "revise_research")
                              /\ ~HasDecision(o, "revise_draft")}
    \cup {EmptyDict}

\* The warning review_post logs when it replaces an invalid decision.
IsCoercionWarning(rec) ==
    /\ rec.level = "WARNING"
    /\ rec.text = "Invalid decision: {}, defaulting to revise_draft"

\* The reviewer model itself answered revise_draft.
ChoseReviseDraft(resp) ==
    /\ IsResponse(resp)
    /\ resp.kind = "json"
    /\ HasDecision(resp.obj, "revise_draft")

\* Run i of the two concurrent runs.
RunOf(i) == IF cur = i THEN Run ELSE peer

\* The run r is run i and keeps its own books: its topic and its limit are
\* the ones it was started with, its iteration count is the number of its own
\* reviews and within its own budget, and every call it has made is about its
\* own topic.
OwnBooks(r, i) ==
    /\ r.topic = PairTopics[i]
    /\ r.max_iterations = PairLimits[i]
    /\ r.iteration = Cardinality(ReviewEvents(r.messages))
    /\ r.iteration <= r.max_iterations
    /\ \A k \in DOMAIN r.calls :
          IF r.calls[k].cap = "research"
          THEN r.calls[k].topic = r.topic
          ELSE r.calls[k].research.topic = r.topic

\* A populated research artifact about the topic t: topic, text and length.
Populated(rdata, t) ==
    /\ {"topic", "research_content", "word_count"} \subseteq DOMAIN rdata
    /\ rdata.topic = t
    /\ rdata.research_content # <<>>
    /\ rdata.word_count = Len(rdata.research_content)

IsPrefix(a, b) == Len(a) <= Len(b) /\ SubSeq(b, 1, Len(a)) = a

\* Every token of every part occurs in text.
MentionsAll(text, parts) ==
    \A i \in DOMAIN parts : \A j \in DOMAIN parts[i] :
        \E k \in DOMAIN text : text[k] = parts[i][j]

----------------------------------------------------------------------------
\* Claims

\* C1: in every run in which no agent call raises, the graph reaches END
\* (finalize has run and run returns), whatever the iteration limit and
\* whatever the reviewer decides: the review/revise loop cannot run forever.
C1_Termination == ([](pc # "raised")) => <>(pc = "END")

C1_Witness ==
    /\ pc = "END"
    /\ max_iterations = MaxLimit
    /\ NReviseSteps = MaxLimit - 1
    /\ ~HasDecision(review_decision, "approve")

\* C2: for every limit L >= 1, a run that returns and in which every review
\* returned revise_draft made exactly L reviews and L-1 revisions, and returns
\* iterations = L.
C2_ExactlyLReviews ==
    (pc = "END" /\ max_iterations >= 1 /\ AllReviewsReviseDraft)
        => /\ NCalls("review") = max_iterations
           /\ NReviewSteps = max_iterations
           /\ NReviseSteps = max_iterations - 1
           /\ iteration = max_iterations

C2_Witness ==
    /\ pc = "END"
    /\ max_iterations = 2
    /\ AllReviewsReviseDraft
    /\ NCalls("review") = 2
    /\ NReviseSteps = 1

\* C3: with limit 0 a run returns having made no review: the Review
\* capability was never called and the returned iterations is 0.
C3_ZeroLimitNoReview ==
    (max_iterations = 0 /\ pc = "END")
        => (NCalls("review") = 0 /\ NReviewSteps = 0 /\ iteration = 0)

\* C4: for every limit >= 0, iteration <= limit in every reachable state.
C4_IterationWithinLimit ==
    max_iterations >= 0 => iteration <= max_iterations

\* C5: a review step that leaves iteration >= limit is followed by finalize,
\* whatever the decision; revise is never entered with iteration >= limit.
C5_BudgetFinalizes ==
    [][/\ (pc = "review" /\ pc' # "raised" /\ iteration' >= max_iterations)
            => pc' = "finalize"
       /\ pc' = "revise" => iteration' < max_iterations]_vars

C5_Witness ==
    /\ pc = "finalize"
    /\ iteration >= max_iterations
    /\ HasDecision(review_decision, "revise_research")

\* C6: no exception escapes run, whatever the generators do.
C6_NoExceptionEscapes == pc # "raised"

\* C7: a reviewer answer with an invalid decision kind is handled exactly as
\* the same answer with kind revise_draft: the review step stores the same
\* decision record and takes the same route (revise while budget remains), and
\* the revise step that follows leaves the research unchanged and makes one
\* call, a drafting call on the existing research with revision guidance.
C7_InvalidKindAsReviseDraft ==
    [][/\ (pc = "review" /\ pc' # "raised" /\ InvalidKind(last_response'))
            => /\ Returned(review_decision')
                    = review_post(post_data, research_data, AsReviseDraft(last_response'))
               /\ HasDecision(review_decision', "revise_draft")
               /\ iteration' < max_iterations => pc' = "revise"
       /\ (pc = "revise" /\ InvalidKind(last_response))
            => /\ research_data' = research_data
               /\ Len(calls') = Len(calls) + 1
               /\ calls'[Len(calls')].cap = "draft"
               /\ calls'[Len(calls')].research = research_data
               /\ calls'[Len(calls')].revision_feedback # None]_vars

C7_Witness ==
    /\ pc = "review"
    /\ iteration >= 1
    /\ InvalidKind(last_response)
    /\ HasDecision(last_response.obj, "maybe")
    /\ LastCall.cap = "draft"
    /\ LastCall.revision_feedback # None

\* C8: after every completed review step the stored decision kind is one of
\* approve, revise_research, revise_draft.
C8_StoredDecisionValid ==
    /\ iteration >= 1 =>
          ("decision" \in DOMAIN review_decision /\ review_decision.decision \in valid_decisions)
    /\ iteration = 0 => review_decision = EmptyDict

C8_Witness ==
    /\ iteration >= 1
    /\ pc = "revise"
    /\ InvalidKind(last_response)

\* C9: a review whose capability fails (the generator raises, or its output
\* is no decision record) stores a revise_draft decision, counts as one
\* iteration and continues to revise or finalize.
C9_ReviewFailureAbsorbed ==
    [][(pc = "review" /\ review_invokes_llm(post_data) /\ ReviewFailed(last_response'))
          => /\ HasDecision(review_decision', "revise_draft")
             /\ iteration' = iteration + 1
             /\ pc' \in {"revise", "finalize"}]_vars

\* C10: with limit >= 1, once the first review has approved, the run has made
\* exactly one research, one draft and one review call and no revision,
\* iteration is 1, only finalize remains, and the final post is the output of
\* the first draft.
C10_FirstApproval ==
    (max_iterations >= 1 /\ FirstReviewApproved)
        => /\ pc \in {"finalize", "END"}
           /\ Len(calls) = 3
           /\ calls[1].cap = "research" /\ calls[2].cap = "draft" /\ calls[3].cap = "review"
           /\ NReviseSteps = 0
           /\ iteration = 1
           /\ pc = "END" => final_post = calls[2].result.value

C10_Witness ==
    /\ pc = "END"
    /\ max_iterations = 2
    /\ FirstReviewApproved
    /\ route = "approved"

\* C11: with limit >= 2, when the first review returned revise_research and
\* the second one approve, the calls between the two reviews are exactly one
\* research call followed by one draft call on its result, the run made two
\* research and two draft calls in all, and the research in the state (the
\* one run returns) is the regenerated research, which is not the initial one.
C11_ResearchThenApprove ==
    (/\ max_iterations >= 2
     /\ Cardinality(ReviewCalls) = 2
     /\ ReviewReturned(calls[FirstReview], "revise_research")
     /\ ReviewReturned(LastCall, "approve"))
        => /\ Len(calls) = FirstReview + 3
           /\ calls[FirstReview + 1].cap = "research"
           /\ calls[FirstReview + 2].cap = "draft"
           /\ calls[FirstReview + 2].research = calls[FirstReview + 1].result.value
           /\ NCalls("research") = 2
           /\ NCalls("draft") = 2
           /\ research_data = calls[FirstReview + 1].result.value
           /\ research_data # calls[1].result.value
           /\ pc = "END" => RunResult.research_data = calls[FirstReview + 1].result.value

C11_Witness ==
    /\ pc = "END"
    /\ max_iterations >= 2
    /\ Cardinality(ReviewCalls) = 2
    /\ ReviewReturned(calls[FirstReview], "revise_research")
    /\ ReviewReturned(LastCall, "approve")
    /\ RunResult.research_data.research_content = calls[1].result.value.research_content

\* C12: a revise step on a revise_draft decision (its suggestions a list)
\* leaves research_data as it was and makes exactly one call, a drafting call
\* on that research with guidance that starts with the decision's feedback
\* and mentions every suggestion; when the call returns, post_data is its
\* result.
C12_ReviseDraftFrame ==
    [][(/\ pc = "revise"
        /\ HasDecision(review_decision, "revise_draft")
        /\ SuggestionsAreList(review_decision))
          => /\ research_data' = research_data
             /\ Len(NewCalls) = 1
             /\ NewCalls[1].cap = "draft"
             /\ NewCalls[1].research = research_data
             /\ "some" \in DOMAIN NewCalls[1].revision_feedback
             /\ IsPrefix(Get(review_decision, "feedback", <<>>),
                         NewCalls[1].revision_feedback.some)
             /\ MentionsAll(NewCalls[1].revision_feedback.some,
                            Get(review_decision, "suggestions", JList(<<>>)).list)
             /\ pc' = "review" => post_data' = NewCalls[1].result.value
             /\ pc' = "raised" => post_data' = post_data]_vars

C12_Witness ==
    /\ pc = "review"
    /\ iteration >= 1
    /\ HasDecision(review_decision, "revise_draft")
    /\ Get(review_decision, "suggestions", JList(<<>>)) = JList(<<<<"s1">>>>)
    /\ LastCall.cap = "draft"
    /\ LastCall.research = research_data
    /\ post_data = LastCall.result.value

\* C13: a revise step on a revise_research decision first calls research
\* with the topic and a focus; when that returns it calls draft_post on the
\* returned research with no revision feedback; when both return,
\* research_data and post_data are the two results.
C13_ReviseResearchOrder ==
    [][(pc = "revise" /\ HasDecision(review_decision, "revise_research"))
          => /\ Len(NewCalls) >= 1
             /\ NewCalls[1].cap = "research"
             /\ NewCalls[1].topic = topic
             /\ "some" \in DOMAIN NewCalls[1].focus_areas
             /\ NewCalls[1].result.raised => (Len(NewCalls) = 1 /\ pc' = "raised")
             /\ ~NewCalls[1].result.raised
                   => /\ Len(NewCalls) = 2
                      /\ NewCalls[2].cap = "draft"
                      /\ NewCalls[2].research = NewCalls[1].result.value
                      /\ NewCalls[2].revision_feedback = None
             /\ pc' = "review"
                   => /\ research_data' = NewCalls[1].result.value
                      /\ post_data' = NewCalls[2].result.value]_vars

C13_Witness ==
    /\ pc = "review"
    /\ iteration >= 1
    /\ HasDecision(review_decision, "revise_research")
    /\ LastCall.cap = "draft"
    /\ LastCall.revision_feedback = None
    /\ LastCall.research = research_data
    /\ research_data.focus_areas # None

\* C14: iteration starts at 0 and always equals the number of review events
\* in the trace; a review step that returns adds exactly 1, before the router
\* is evaluated (the route is the budget route exactly when the incremented
\* value has reached the limit); every other step leaves it unchanged.
C14_IterationCounts ==
    /\ iteration = 0
    /\ [](iteration = NReviewSteps)
    /\ [][/\ (pc = "review" /\ pc' # "raised")
                => /\ iteration' = iteration + 1
                   /\ (route' = "max_iterations") <=> (iteration + 1 >= max_iterations)
          /\ (pc # "review" \/ pc' = "raised") => iteration' = iteration
          /\ iteration' >= iteration]_vars

C14_Witness ==
    /\ pc = "END"
    /\ iteration = 2
    /\ NReviseSteps = 1
    /\ NReviewSteps = 2

\* C15: the finalize step sets final_post to the post_data in the state,
\* whichever route led to finalize, and that value is the final_post run
\* returns.
C15_FinalIsCurrentDraft ==
    [][pc = "finalize"
          => /\ final_post' = post_data
             /\ pc' = "END"
             /\ RunResult'.final_post = post_data]_vars

C15_Witness ==
    /\ pc = "END"
    /\ route = "max_iterations"
    /\ ~HasDecision(review_decision, "approve")
    /\ RunResult.final_post = post_data
    /\ final_post # EmptyDict

\* C16: final_post is non-empty exactly when the graph has reached END; it
\* changes only in the finalize step, from the empty dict, and never again.
C16_FinalSetIffTerminal ==
    /\ []((pc = "END") <=> (final_post # EmptyDict))
    /\ [][final_post' # final_post
              => (pc = "finalize" /\ final_post = EmptyDict /\ pc' = "END")]_vars

C16_Witness ==
    /\ pc = "END"
    /\ final_post # EmptyDict
    /\ NReviseSteps >= 1

\* C17: in every state, finalizing the finalized state again gives the same
\* final_post as finalizing once.
C17_FinalizeIdempotent ==
    finalize(finalize(State)).final_post = finalize(State).final_post

C17_Witness ==
    /\ pc = "END"
    /\ final_post # EmptyDict
    /\ finalize(State).final_post = final_post

\* C18: for every limit >= 0, a run that returns after a last review that did
\* not approve returns iterations equal to the limit.
C18_ExhaustedAtLimit ==
    (pc = "END" /\ max_iterations >= 0 /\ ~HasDecision(review_decision, "approve"))
        => RunResult.iterations = max_iterations

\* C19: while budget remains, a draft with zero units that was drafted
\* without error is sent to revision after its review, whatever the reviewer
\* decided (stated for the review steps that return).
C19_ZeroUnitsRevised ==
    [][(pc = "review" /\ ZeroUnits(post_data) /\ pc' # "raised"
                      /\ iteration' < max_iterations)
          => pc' = "revise"]_vars

\* C20: a draft step in which the drafting capability fails internally (its
\* generator raises, or its output holds no slide list) stores a well-formed
\* artifact with one error unit, unit count 1 and an error marker, and goes
\* on to review.
C20_DraftFailureIsArtifact ==
    [][pc = "draft"
          => \A resp \in DraftResponses :
                (/\ DraftFails(resp)
                 /\ LastCall' = DraftCall(research_data, None,
                                          draft_post(research_data, None, resp)))
                    => (IsErrorDraft(post_data') /\ pc' = "review")]_vars

\* C21: the capability calls of a run are made one after the other: a call
\* is started only when the one before it has returned; every review call
\* follows a returned draft call, and every draft call follows the returned
\* research call or, in a revision of the draft alone, the returned review
\* that asked for it.  The only transitions between phases are
\* research->draft, draft->review, review->finalize, review->revise and
\* revise->review, and the run ends only from finalize.
C21_SequentialPhases ==
    /\ [](\A i \in DOMAIN calls :
            /\ i < Len(calls) => ~calls[i].result.raised
            /\ calls[i].cap = "review" => FollowsReturned(i, {"draft"})
            /\ calls[i].cap = "draft" => FollowsReturned(i, {"research", "review"})
            /\ calls[i].cap = "research" => (i = 1 \/ FollowsReturned(i, {"review"})))
    /\ [][/\ (pc' # pc /\ pc' \notin {"END", "raised"}) => <<pc, pc'>> \in PhaseTransitions
          /\ pc' = "END" => pc = "finalize"
          /\ Len(calls') > Len(calls) + 1
                => (pc = "revise" /\ Len(calls') = Len(calls) + 2)]_vars

C21_Witness ==
    /\ pc = "END"
    /\ NReviseSteps = 1
    /\ Len(calls) = 6
    /\ calls[4].cap = "research"
    /\ calls[5].cap = "draft"
    /\ calls[6].cap = "review"

\* C24: the trace run returns tells the termination reason: the run was
\* finalized on an approval (its last review approved) exactly when the last
\* review event of the trace names the decision approve, and otherwise it
\* was finalized because the budget was used up.
C24_TraceTellsReason ==
    pc = "END"
        => /\ ReviewEvents(RunResult.messages) # {}
           /\ TraceSaysApproved(RunResult.messages)
                 <=> HasDecision(review_decision, "approve")
           /\ ~TraceSaysApproved(RunResult.messages)
                 => (route = "max_iterations" /\ iteration >= max_iterations)

C24_Witness ==
    /\ pc = "END"
    /\ max_iterations = 2
    /\ iteration = 2
    /\ ~TraceSaysApproved(RunResult.messages)
    /\ HasDecision(review_decision, "revise_research")

\* C25: the final artifact does not tell the termination reason: whatever
\* decision and iteration count the state holds when finalize runs, a state
\* with the same draft yields the same final_post, so a run finalized on
\* approval and one finalized on budget exhaustion with the same draft
\* return identical final artifacts.
C25_FinalHidesReason ==
    pc = "finalize"
        => \A d \in DecisionRecords, k \in 0..(MaxLimit + 1) :
              finalize([State EXCEPT !.review_decision = d, !.iteration = k]).final_post
                  = finalize(State).final_post

C25_Witness ==
    /\ pc = "finalize"
    /\ route = "max_iterations"
    /\ HasDecision(review_decision, "revise_draft")
    /\ \E d \in DecisionRecords : HasDecision(d, "approve")
    /\ Get(post_data, "slide_count", 0) = max_slides

C29_ReviseOnlyFromReview ==
    [][/\ pc' = "revise"
             => /\ pc = "review"
                /\ \/ HasDecision(review_decision', "revise_research")
                   \/ HasDecision(review_decision', "revise_draft")
                /\ iteration' = iteration + 1
                /\ iteration' < max_iterations
       /\ pc = "revise" => pc' \in {"review", "raised"}
       /\ (pc = "revise" /\ Len(messages') > Len(messages)) => pc' = "review"]_vars

C29_Witness ==
    /\ pc = "review"
    /\ NReviseSteps = 1
    /\ iteration = 1
    /\ max_iterations = 2
    /\ HasDecision(review_decision, "revise_research")

\* C30: given a decision whose kind is approve, or any kind other than
\* revise_research and revise_draft (or no kind), execute_action returns the
\* research and the draft it was given and calls neither the researcher nor
\* the drafter, whatever these would answer.
C30_DispatchPassThrough ==
    \A d \in PassThroughDecisions, rresp \in ResearchResponses, dresp \in DraftResponses :
        execute_action(d, research_data, post_data, topic, rresp, dresp)
            = [raised |-> FALSE, research |-> research_data, post |-> post_data,
               calls |-> <<>>]

C30_Witness ==
    /\ pc = "revise"
    /\ Get(post_data, "slide_count", 0) = max_slides
    /\ research_data # EmptyDict
    /\ \E d \in PassThroughDecisions :
          /\ HasDecision(d, "maybe")
          /\ \A rresp \in ResearchResponses, dresp \in DraftResponses :
                execute_action(d, research_data, post_data, topic, rresp, dresp).post
                    = post_data

\* C28: with the editor's max_iterations set to m, a run makes no more than m
\* revisions.  (The run does not depend on the setting, so every reachable
\* state is reachable under every configuration of the editor.)
C28_EditorLimitBoundsRevisions ==
    \A config \in EditorConfigs : NReviseSteps <= EditorInit(config).max_iterations

\* C27: the coercion of an invalid decision kind is recorded apart from a
\* reviewer's own choice of revise_draft: both reviews store the decision
\* revise_draft, but the review of an invalid kind adds one warning naming
\* the coercion to the editor's log, and the review in which the reviewer
\* chose revise_draft adds nothing to it.
C27_CoercionLogged ==
    [][(pc = "review" /\ pc' # "raised" /\ pc' # pc)
          => /\ InvalidKind(last_response')
                   => /\ HasDecision(review_decision', "revise_draft")
                      /\ Len(log') = Len(log) + 1
                      /\ IsPrefix(log, log')
                      /\ IsCoercionWarning(log'[Len(log')])
             /\ ChoseReviseDraft(last_response')
                   => /\ HasDecision(review_decision', "revise_draft")
                      /\ log' = log]_vars

C27_Witness ==
    /\ pc = "revise"
    /\ HasDecision(review_decision, "revise_draft")
    /\ IsResponse(last_response)
    /\ last_response.kind = "json"
    /\ HasDecision(last_response.obj, "maybe")
    /\ Len(log) = 1
    /\ IsCoercionWarning(log[1])

\* C23: once the caller has signalled cancellation no further phase is
\* started: the signal is looked at before research, draft, review and a
\* revision are started, so no node runs in a state in which it is set.
C23_NoPhaseAfterCancel ==
    [][cancelled => pc' = pc]_vars

\* C22: two runs executing concurrently do not affect each other: a step of
\* one run leaves the state, the decisions, the artifacts, the iteration
\* count and the trace of the other run as they were, passing control from
\* one run to the other changes neither, and each run counts its own reviews
\* against its own limit and calls the agents about its own topic only.
C22_RunsIndependent ==
    /\ [](OwnBooks(RunOf(1), 1) /\ OwnBooks(RunOf(2), 2))
    /\ [][IF cur' # cur
          THEN RunOf(1)' = RunOf(1) /\ RunOf(2)' = RunOf(2)
          ELSE peer' = peer]_vars

C22_Witness ==
    /\ cur = 1
    /\ pc = "revise"
    /\ iteration = 1
    /\ peer.pc = "finalize"
    /\ peer.iteration = 1
    /\ peer.topic = PairTopics[2]
    /\ Len(log) = 2

\* C31: the focus a revise step on revise_research hands to the researcher
\* is the decision's suggestions joined with a blank when the suggestion list
\* is non-empty, and then holds nothing of the feedback; it is the feedback
\* text when the list is empty.
C31_FocusFromSuggestions ==
    [][(pc = "revise" /\ HasDecision(review_decision, "revise_research"))
          => LET suggestions == Get(review_decision, "suggestions", JList(<<>>))
                 feedback == Get(review_decision, "feedback", <<>>)
                 focus == NewCalls[1].focus_areas
             IN  /\ NewCalls[1].cap = "research"
                 /\ "some" \in DOMAIN focus
                 /\ ("list" \in DOMAIN suggestions /\ Len(suggestions.list) >= 1)
                       => /\ focus.some = Join(suggestions.list, <<" ">>)
                          /\ MentionsAll(focus.some, suggestions.list)
                          /\ \A k \in DOMAIN focus.some, j \in DOMAIN feedback :
                                focus.some[k] # feedback[j]
                 /\ ("list" \in DOMAIN suggestions /\ suggestions.list = <<>>)
                       => focus.some = feedback]_vars

C31_Witness ==
    /\ pc = "review"
    /\ iteration = 1
    /\ HasDecision(review_decision, "revise_research")
    /\ review_decision.suggestions = JList(<<<<"s1">>, <<"s2">>>>)
    /\ research_data.focus_areas = Some(<<"s1", " ", "s2">>)

\* C32: whether the search succeeded or failed, a research call whose model
\* answers returns a populated research artifact (topic, text, length); the
\* research step whose call returns stores it and goes on to draft, no draft
\* having been made yet, so that whenever the state holds a draft it holds a
\* populated research artifact.
C32_ResearchAdvances ==
    /\ [](\A resp \in ResearchResponses :
            resp.kind = "text"
                => LET out == research(topic, None, resp)
                   IN  ~out.raised /\ Populated(out.value, topic))
    /\ [](post_data # EmptyDict => Populated(research_data, topic))
    /\ [][(pc = "research" /\ ~LastCall'.result.raised)
            => /\ pc' = "draft"
               /\ research_data' = LastCall'.result.value
               /\ Populated(research_data', topic)
               /\ post_data' = EmptyDict]_vars

C32_Witness ==
    /\ pc = "draft"
    /\ post_data = EmptyDict
    /\ Populated(research_data, topic)
    /\ \E resp \in ResearchResponses :
          /\ resp.search = "error"
          /\ research(topic, None, resp) = Returned(research_data)

\* C33: a review step that returns approve and leaves iteration >= the limit
\* takes the route max_iterations, not approved; both routes lead to
\* finalize, and the finalize step that follows makes the draft that was
\* approved the final post, as it does on the approved route.
C33_ApproveAtBudget ==
    /\ [][(pc = "review" /\ pc' # "raised"
             /\ HasDecision(review_decision', "approve")
             /\ iteration' >= max_iterations)
            => /\ route' = "max_iterations"
               /\ route' # "approved"
               /\ pc' = "finalize"
               /\ pc' = EdgeTarget("approved")
               /\ post_data' = post_data
               /\ LastCall'.post = post_data]_vars
    /\ [][(pc = "finalize" /\ HasDecision(review_decision, "approve"))
            => /\ route \in {"approved", "max_iterations"}
               /\ final_post' = LastCall.post
               /\ final_post' = post_data]_vars

C33_Witness ==
    /\ pc = "END"
    /\ route = "max_iterations"
    /\ HasDecision(review_decision, "approve")
    /\ iteration = max_iterations
    /\ max_iterations = 2
    /\ final_post = LastCall.post
    /\ ReviewReturned(LastCall, "approve")

\* C34: whenever the graph is at review, at finalize or at END, post_data is
\* the value returned by the most recent drafting call, and the research that
\* call was given is the research_data in the state.
C34_DraftPairedWithResearch ==
    pc \in {"review", "finalize", "END"}
        => /\ DraftCalls # {}
           /\ ~LastDraft.result.raised
           /\ LastDraft.result.value = post_data
           /\ LastDraft.research = research_data

C34_Witness ==
    /\ pc = "finalize"
    /\ NCalls("research") = 2
    /\ NCalls("draft") = 2
    /\ LastDraft.research = research_data
    /\ LastDraft.research # calls[FirstDraft].research
    /\ LastDraft.result.value = post_data

\* C35: finalize is entered only from a review step that returned, the
\* finalize step makes the draft that review was given the final post, and
\* at END the final post is the draft of the most recent review call; no
\* draft produced by a revise step is finalized without a review of it.
C35_FinalWasReviewed ==
    /\ [](pc \in {"finalize", "END"}
            => /\ ReviewCalls # {}
               /\ ~LastReview.result.raised
               /\ LastReview.post = post_data
               /\ LastReview.post = LastDraft.result.value
               /\ pc = "END" => final_post = LastReview.post)
    /\ [][/\ pc' = "finalize" => (pc = "review" /\ LastCall'.cap = "review")
          /\ pc = "revise" => pc' \in {"review", "raised"}
          /\ pc = "finalize" => final_post' = LastCall.post]_vars

C35_Witness ==
    /\ pc = "END"
    /\ NReviseSteps = 1
    /\ NCalls("review") = 2
    /\ final_post = LastReview.post
    /\ final_post = LastDraft.result.value
    /\ final_post # calls[FirstReview].post

C37_CallsWithinLimit ==
    /\ [](max_iterations >= 1
            => /\ NCalls("review") <= max_iterations
               /\ NCalls("draft") <= max_iterations
               /\ NCalls("research") <= max_iterations
               /\ NCalls("draft") <= 1 + NReviewSteps
               /\ NCalls("research") <= 1 + NReviewSteps)
    /\ [][LET added(cap) == Cardinality({k \in DOMAIN NewCalls : NewCalls[k].cap = cap})
          IN  /\ pc \in {"research", "draft", "review"}
                    => (Len(NewCalls) = 1 /\ added(pc) = 1)
              /\ pc = "revise"
                    => /\ added("review") = 0
                       /\ added("research") <= 1
                       /\ added("draft") <= 1
              /\ pc = "finalize" => NewCalls = <<>>]_vars

C37_Witness ==
    /\ pc = "END"
    /\ max_iterations = 2
    /\ NCalls("review") = max_iterations
    /\ NCalls("draft") = max_iterations
    /\ NCalls("research") = max_iterations
    /\ ~HasDecision(review_decision, "approve")

\* C38: the conditional edge sends every state whose decision is not approve,
\* a decision of unknown kind or without kind included, to revise while
\* iteration < the limit, and to finalize otherwise; revise_node given such
\* an unnormalized decision calls no capability, logs a warning, leaves the
\* research and the draft as they are and goes to review, which is given the
\* same draft; that review step ends at finalize exactly when it approves or
\* the limit is reached.
C38_UnknownKindLoops ==
    /\ [][pc = "route"
            => /\ (~HasDecision(review_decision, "approve")
                      /\ iteration < max_iterations)
                    => (route' = "revise" /\ pc' = "revise")
               /\ iteration >= max_iterations
                    => (route' = "max_iterations" /\ pc' = "finalize")]_vars
    /\ [][(pc = "revise" /\ Unnormalized(review_decision))
            => /\ NewCalls = <<>>
               /\ post_data' = post_data
               /\ research_data' = research_data
               /\ iteration' = iteration
               /\ Len(log') = Len(log) + 1
               /\ log'[Len(log')].level = "WARNING"
               /\ pc' = "review"]_vars
    /\ [][(pc = "review" /\ pc' # "raised")
            => /\ LastCall'.cap = "review"
               /\ LastCall'.post = post_data
               /\ post_data' = post_data
               /\ iteration' = iteration + 1
               /\ (pc' = "finalize")
                    <=> (HasDecision(review_decision', "approve")
                           \/ iteration' >= max_iterations)
               /\ pc' \in {"finalize", "revise"}]_vars

C38_Witness ==
    /\ pc = "review"
    /\ route = "revise"
    /\ HasDecision(review_decision, "maybe")
    /\ Unnormalized(review_decision)
    /\ iteration = 1
    /\ max_iterations = 2
    /\ NReviseSteps = 1
    /\ calls = <<>>
    /\ Len(log) = 1
    /\ Get(post_data, "slide_count", 0) = max_slides

\* C39: draft_post given a well-formed answer returns an artifact with at
\* most max_slides units, which are the units of the answer when it has at
\* most max_slides and its first max_slides units in their order when it has
\* more, and whose slide_count is the number of units it carries; so does
\* every drafting call of a run, and the post in the state when it is no
\* error artifact.
C39_TruncatedToMaxSlides ==
    /\ \A resp \in {r \in DraftResponses : WellFormed(r)}, fb \in {None, Some(<<"fb">>)} :
          LET out == draft_post(research_data, fb, resp)
              units == out.value.post.slides
          IN  /\ ~out.raised
              /\ "error" \notin DOMAIN out.value
              /\ Len(units) <= max_slides
              /\ Len(units) = IF Len(resp.slides) > max_slides
                               THEN max_slides ELSE Len(resp.slides)
              /\ \A k \in 1..Len(units) : units[k] = resp.slides[k]
              /\ out.value.slide_count = Len(units)
    /\ \A i \in DraftCalls :
          ~calls[i].result.raised
              => LET post == calls[i].result.value
                 IN  /\ post.slide_count = Len(post.post.slides)
                     /\ Len(post.post.slides) <= max_slides
    /\ (post_data # EmptyDict /\ "error" \notin DOMAIN post_data)
          => \E resp \in DraftResponses :
                /\ WellFormed(resp)
                /\ IsPrefix(post_data.post.slides, resp.slides)
                /\ post_data.slide_count = Len(post_data.post.slides)

C39_Witness ==
    /\ pc = "review"
    /\ "error" \notin DOMAIN post_data
    /\ post_data.slide_count = max_slides
    /\ LastCall.cap = "draft"
    /\ LastCall.result = Returned(post_data)
    /\ \E resp \in DraftResponses :
          /\ WellFormed(resp)
          /\ Len(resp.slides) = max_slides + 1
          /\ draft_post(research_data, None, resp) = Returned(post_data)
          /\ post_data.post.slides = SubSeq(resp.slides, 1, max_slides)
          /\ post_data.post.slides # resp.slides

============================================================================
